---- MODULE Spec2Model ----
(***************************************************************************)
(* Model of the RAG backend: the multi-model failover router               *)
(* (backend/llm_router.py), the in-memory FAISS store                      *)
(* (backend/retriever.py), the ingestion pipeline (backend/ingest.py,      *)
(* backend/utils/chunker.py, backend/utils/loaders.py), question answering *)
(* (backend/qa.py) and the upload endpoint (backend/main.py).              *)
(***************************************************************************)
EXTENDS Integers, Sequences, FiniteSets, TLC

VARIABLES
    \* ---- LLMRouter (llm_router.py) ----
    models,      \* self.models: sequence of max_context_tokens, priority order;
                 \* a model's name is its position in the list
    rpc,         \* position of the generate call: idle / loop / calling / returned / raised
    est,         \* generate's max_context_tokens argument (the estimated tokens)
    up,          \* environment: the models whose endpoint answers with text during
                 \* this generate call; every other model's call fails
    pos,         \* the for loop's position in self.models
    errors,      \* generate's local list `errors` (model names)
    calls,       \* history: the models _call_model was invoked for, in order
    results,     \* history: what each _call_model invocation gave back
    skipped,     \* history: the models skipped by the context-size check
    outcome,     \* what generate returned or raised
    \* ---- FAISSRetriever (retriever.py) ----
    index,       \* self.index: None, or the vectors held by the IndexFlatL2
    chunks,      \* self.chunks: sequence of chunk dicts
    dropped,     \* history: the number of chunks the last clear() removed, -1 before any
    addedCount,  \* history: sum of len(chunks) over add_chunks since the last clear
    addedList,   \* history: the chunks given to add_chunks since the last clear
    lastOp,      \* the operation that ran last, with its arguments
    lastRet,     \* what that operation returned
    \* ---- chunk_text (utils/chunker.py) ----
    cin,          \* the arguments: text, filename, chunk_size, chunk_overlap
    cpc,          \* position of the chunk_text call: idle / sentences / words / done
    sentenceList, \* the local `sentences`
    spos,         \* position of the loop over sentences
    cst,          \* the locals chunks, chunk_index, current_chunk, current_tokens
    wordList,     \* the local `words` of an oversized sentence
    wpos,         \* position of the loop over words
    wst,          \* chunks, chunk_index, word_chunk, word_tokens inside the word loop
    flushes,      \* history: for each chunk appended, the buffer it was joined from,
                  \* the place in the code that appended it, and the overlap kept
    estimated,    \* what estimate_tokens(cin.text) returned, -1 before the call
    \* ---- answer_question (qa.py) ----
    qpc,          \* position of the answer_question call: idle / generating / done
    qarg,         \* the arguments: question, top_k
    qstats,       \* the local `stats`
    qsearched,    \* history: the call went on to retriever.search
    qchunks,      \* the local `chunks`: what retriever.search returned
    qret,         \* what answer_question returned or raised
    \* ---- two threads on one FAISSRetriever ----
    mpc,          \* the thread in add_chunks or clear: idle / add_begun / add_indexed /
                  \* clear_reset
    mpend,        \* that thread's argument `chunks` of add_chunks
    spc,          \* the thread in search: idle / checked / clamped / searched / done
    sloc,         \* that thread's locals: query, top_k as given and as clamped, the
                  \* hits the index gave, and the index size and chunk count it read
    sret          \* what search returned or raised

routerVars == <<models, rpc, est, up, pos, errors, calls, results, skipped, outcome>>
storeVars == <<index, chunks, dropped, addedCount, addedList, lastOp, lastRet>>
chunkerVars == <<cin, cpc, sentenceList, spos, cst, wordList, wpos, wst, flushes, estimated>>
\* the variables of the components other than the router and the store
qaVars == <<qpc, qarg, qstats, qsearched, qchunks, qret>>
raceVars == <<mpc, mpend, spc, sloc, sret>>
restVars == <<chunkerVars, qaVars, raceVars>>
vars == <<routerVars, storeVars, restVars>>

\* Python's None
NoneVal == "<None>"
\* generate has neither returned nor raised
NoOutcome == [tag |-> "none"]

(***************************************************************************)
(* Bounds of the model                                                     *)
(***************************************************************************)
MaxModels == 3      \* longest model list
MaxCtx == 2         \* largest max_context_tokens of a model
MaxTokens == 3      \* largest estimated token count passed to generate
MaxStore == 3       \* most chunks held by the store
MaxAdd == 2         \* longest chunk list given to add_chunks directly
MaxTopK == 3        \* largest top_k given to search
EmbRange == 3       \* number of distinct embedding vectors

Min(a, b) == IF a <= b THEN a ELSE b
Max(a, b) == IF a >= b THEN a ELSE b
Range(s) == {s[k] : k \in 1..Len(s)}

(***************************************************************************)
(* LLMRouter                                                               *)
(***************************************************************************)

\* The answer texts a model can produce
AnswerTexts == {"answer one", "answer two"}

\* What requests.post can give for one call: an exception, or a response
\* with a status code and a body.
BodyShapes == {"not_json", "json_null", "no_choices", "empty_choices",
               "choices_null", "choice_null", "choice_no_message",
               "message_null", "message_no_content", "content"}

HttpOutcomes ==
    {[exc |-> e, status |-> 0, body |-> "none", content |-> NoneVal]
        : e \in {"Timeout", "RequestException"}}
    \cup {[exc |-> "none", status |-> s, body |-> "no_choices", content |-> NoneVal]
        : s \in {429, 500}}
    \cup {[exc |-> "none", status |-> 200, body |-> b, content |-> NoneVal]
        : b \in BodyShapes \ {"content"}}
    \cup {[exc |-> "none", status |-> 200, body |-> "content", content |-> c]
        : c \in AnswerTexts \cup {"", NoneVal}}

\* _call_model: the value returned, or the exception that leaves it.
\* Timeout, RequestException, KeyError, IndexError and JSONDecodeError are
\* caught and give None; a TypeError (subscripting or testing membership in
\* a JSON null / number / string) is caught by no except clause.
ReturnNone == [tag |-> "return", value |-> NoneVal]
RaiseTypeError == [tag |-> "raise", value |-> "TypeError"]

CallModel(http) ==
    IF http.exc \in {"Timeout", "RequestException"} THEN ReturnNone
    ELSE IF http.status = 200 THEN
        CASE http.body = "not_json" -> ReturnNone            \* JSONDecodeError, caught
          [] http.body = "json_null" -> RaiseTypeError       \* "choices" in None
          [] http.body = "no_choices" -> ReturnNone          \* falls to line 70
          [] http.body = "empty_choices" -> ReturnNone       \* len(...) = 0
          [] http.body = "choices_null" -> RaiseTypeError    \* len(None)
          [] http.body = "choice_null" -> RaiseTypeError     \* None["message"]
          [] http.body = "choice_no_message" -> ReturnNone   \* KeyError, caught
          [] http.body = "message_null" -> RaiseTypeError    \* None["content"]
          [] http.body = "message_no_content" -> ReturnNone  \* KeyError, caught
          [] http.body = "content" -> [tag |-> "return", value |-> http.content]
    ELSE ReturnNone

\* Python truthiness of _call_model's return value (`if response:`)
Truthy(v) == v # NoneVal /\ v # ""

\* `if max_context_tokens and max_context_tokens > model.max_context_tokens`
SkipMutOffByOne(e, maxctx) == e # 0 /\ e > maxctx + 1

SkipModelCond(e, maxctx) == e # 0 /\ e > maxctx

\* A variant of AfterSkip that records the skipped model in errors
AfterSkipMutRecorded(p, errs, sk) ==
    [pos |-> p + 1, errors |-> Append(errs, p), skipped |-> Append(sk, p)]

\* lines 100-102: `continue`, nothing is appended to errors
AfterSkip(p, errs, sk) == [pos |-> p + 1, errors |-> errs, skipped |-> Append(sk, p)]

\* The message of the RuntimeError raised at line 119:
\* "All models failed: " + "; ".join(errors)
AllFailedPrefix == "All models failed: "
AllFailedError(errs) ==
    [tag |-> "raise", exc |-> "RuntimeError", prefix |-> AllFailedPrefix, failed |-> errs]

\* an exception that _call_model did not catch, leaving generate
Escaped(exc) == [tag |-> "raise", exc |-> exc, prefix |-> "", failed |-> <<>>]

\* A variant of AfterCall that keeps going after a success
AfterCallMutNoReturn(r, p, errs, out) ==
    IF r.tag = "raise"
    THEN [rpc |-> "raised", pos |-> p, errors |-> errs, outcome |-> Escaped(r.value)]
    ELSE IF Truthy(r.value)
    THEN [rpc |-> "loop", pos |-> p + 1, errors |-> errs,
          outcome |-> [tag |-> "return", text |-> r.value, model_name |-> p]]
    ELSE [rpc |-> "loop", pos |-> p + 1, errors |-> Append(errs, p), outcome |-> out]

\* A variant of AfterCall that tries a failed model once more
AfterCallMutRetry(r, p, errs, out) ==
    IF r.tag = "raise"
    THEN [rpc |-> "raised", pos |-> p, errors |-> errs, outcome |-> Escaped(r.value)]
    ELSE IF Truthy(r.value)
    THEN [rpc |-> "returned", pos |-> p, errors |-> errs,
          outcome |-> [tag |-> "return", text |-> r.value, model_name |-> p]]
    ELSE [rpc |-> "loop", pos |-> IF p \in Range(errs) THEN p + 1 ELSE p,
          errors |-> Append(errs, p), outcome |-> out]

\* lines 106-115, after _call_model came back with r for the model at p: a
\* truthy response is returned with the model's name, a falsy one is
\* recorded in errors and the loop goes on, an exception that _call_model
\* does not catch leaves generate.
AfterCall(r, p, errs, out) ==
    IF r.tag = "raise"
    THEN [rpc |-> "raised", pos |-> p, errors |-> errs, outcome |-> Escaped(r.value)]
    ELSE IF Truthy(r.value)
    THEN [rpc |-> "returned", pos |-> p, errors |-> errs,
          outcome |-> [tag |-> "return", text |-> r.value, model_name |-> p]]
    ELSE [rpc |-> "loop", pos |-> p + 1, errors |-> Append(errs, p), outcome |-> out]

\* config.MODELS: the max_context_tokens of the configured models
MODELS == <<8000, 4000, 3000>>

ModelLists == UNION {[1..n -> 0..MaxCtx] : n \in 0..MaxModels}

\* the response carries answer text
IsAnswer(http) ==
    http.exc = "none" /\ http.status = 200 /\ http.body = "content"
    /\ http.content \in AnswerTexts

RouterIdle ==
    /\ rpc = "idle"
    /\ est = 0
    /\ up = {}
    /\ pos = 1
    /\ errors = <<>>
    /\ calls = <<>>
    /\ results = <<>>
    /\ skipped = <<>>
    /\ outcome = NoOutcome

RouterInit ==
    /\ models \in ModelLists \cup {MODELS}
    /\ RouterIdle

\* generate(prompt, max_context_tokens) is entered: errors = []
Generate ==
    /\ rpc \in {"idle", "returned", "raised"}
    /\ \E e \in 0..MaxTokens : est' = e
    /\ \E u \in SUBSET (1..Len(models)) : up' = u
    /\ rpc' = "loop"
    /\ pos' = 1
    /\ errors' = <<>>
    /\ calls' = <<>>
    /\ results' = <<>>
    /\ skipped' = <<>>
    /\ outcome' = NoOutcome
    /\ UNCHANGED <<models, storeVars, restVars>>

\* lines 100-102: the model is skipped, the loop continues
SkipModel ==
    /\ rpc = "loop"
    /\ pos <= Len(models)
    /\ SkipModelCond(est, models[pos])
    /\ LET after == AfterSkip(pos, errors, skipped) IN
       /\ pos' = after.pos
       /\ errors' = after.errors
       /\ skipped' = after.skipped
    /\ UNCHANGED <<models, rpc, est, up, calls, results, outcome, storeVars, restVars>>

\* lines 104-110: _call_model is invoked for the model at pos
StartCall ==
    /\ rpc = "loop"
    /\ pos <= Len(models)
    /\ ~SkipModelCond(est, models[pos])
    /\ rpc' = "calling"
    /\ calls' = Append(calls, pos)
    /\ UNCHANGED <<models, est, up, pos, errors, results, skipped, outcome, storeVars, restVars>>

\* lines 106-115: _call_model comes back with what the model's endpoint gave
FinishCall ==
    /\ rpc = "calling"
    /\ \E http \in HttpOutcomes :
        /\ IsAnswer(http) <=> pos \in up
        /\ LET r == CallModel(http)
               after == AfterCall(r, pos, errors, outcome)
           IN /\ results' = Append(results, [model |-> pos, tag |-> r.tag,
                                              value |-> r.value])
              /\ rpc' = after.rpc
              /\ pos' = after.pos
              /\ errors' = after.errors
              /\ outcome' = after.outcome
    /\ UNCHANGED <<models, est, up, calls, skipped, storeVars, restVars>>

\* lines 117-119: the list is exhausted
RaiseAllFailed ==
    /\ rpc = "loop"
    /\ pos > Len(models)
    /\ rpc' = "raised"
    /\ outcome' = AllFailedError(errors)
    /\ UNCHANGED <<models, est, up, pos, errors, calls, results, skipped, storeVars, restVars>>

RouterNext == Generate \/ SkipModel \/ StartCall \/ FinishCall \/ RaiseAllFailed

(***************************************************************************)
(* Text and the chunker (utils/chunker.py)                                 *)
(*                                                                         *)
(* A text is a sequence of items: a word, or a run of whitespace.  Two     *)
(* neighbouring words are separated by whitespace; a whitespace item is a  *)
(* further run of it.  A word's `stop` says that its last character is one *)
(* of . ! ?                                                                *)
(***************************************************************************)
Whitespace == [w |-> 0, stop |-> FALSE]
Word(i, s) == [w |-> i, stop |-> s]
IsWord(x) == x.w # 0

\* text.split(): the words of a text
SplitWords(text) == SelectSeq(text, IsWord)

\* A variant of EstimateTokens that rounds to the nearest integer
EstimateTokensMutRound(text) == (13 * Len(SplitWords(text)) + 5) \div 10

\* estimate_tokens: int(len(text.split()) * 1.3).  The float product
\* truncated equals 13 * words \div 10 for every word count below 200000.
EstimateTokens(text) == (13 * Len(SplitWords(text))) \div 10

\* `not text or not text.strip()`
IsBlank(text) == \A k \in 1..Len(text) : ~IsWord(text[k])

\* re.sub(r'\s+', ' ', text).strip(): words separated by single spaces
Normalize(text) == SelectSeq(text, IsWord)

\* re.split(r'(?<=[.!?])\s+', text): a sentence ends at each stop word that
\* is followed by whitespace, and at the end of the text
RECURSIVE SplitFrom(_, _)
SplitFrom(words, start) ==
    IF start > Len(words) THEN <<>>
    ELSE LET e == CHOOSE x \in start..Len(words) :
                    /\ words[x].stop \/ x = Len(words)
                    /\ \A y \in start..(x - 1) : ~words[y].stop
         IN <<SubSeq(words, start, e)>> \o SplitFrom(words, e + 1)

SplitSentences(words) == SplitFrom(words, 1)

\* ' '.join(pieces)
RECURSIVE Join(_)
Join(pieces) == IF pieces = <<>> THEN <<>> ELSE Head(pieces) \o Join(Tail(pieces))

\* the dict appended to chunks at lines 65-70, 84-89, 108-113, 136-141
MakeChunk(pieces, filename, chunk_index) ==
    LET t == Join(pieces) IN
    [text |-> t, filename |-> filename, chunk_index |-> chunk_index,
     token_estimate |-> EstimateTokens(t)]

\* s[-n:] for n >= 1
LastN(s, n) == SubSeq(s, Max(1, Len(s) - n + 1), Len(s))

\* A variant of OverlapWalk that stops one sentence early: < for <=
RECURSIVE OverlapWalkMutStrict(_, _, _, _, _)
OverlapWalkMutStrict(cur, j, acc, toks, chunk_overlap) ==
    IF j = 0 THEN [sents |-> acc, tokens |-> toks]
    ELSE LET sent_tokens == EstimateTokens(cur[j]) IN
         IF toks + sent_tokens < chunk_overlap
         THEN OverlapWalkMutStrict(cur, j - 1, <<cur[j]>> \o acc, toks + sent_tokens,
                                   chunk_overlap)
         ELSE [sents |-> acc, tokens |-> toks]

\* lines 117-125: walk current_chunk in reverse while the overlap fits
RECURSIVE OverlapWalk(_, _, _, _, _)
OverlapWalk(cur, j, acc, toks, chunk_overlap) ==
    IF j = 0 THEN [sents |-> acc, tokens |-> toks]
    ELSE LET sent_tokens == EstimateTokens(cur[j]) IN
         IF toks + sent_tokens <= chunk_overlap
         THEN OverlapWalk(cur, j - 1, <<cur[j]>> \o acc, toks + sent_tokens, chunk_overlap)
         ELSE [sents |-> acc, tokens |-> toks]

\* A variant of WordStep whose flush leaves chunk_index as it is
WordStepMutNoIncrement(word, st, filename, chunk_size, chunk_overlap) ==
    LET word_token_count == EstimateTokens(word)
        flushed ==
            IF st.word_tokens + word_token_count > chunk_size /\ st.word_chunk # <<>>
            THEN LET overlap_words ==
                         Max(1, (Len(st.word_chunk) * chunk_overlap) \div chunk_size)
                     kept == LastN(st.word_chunk, overlap_words)
                 IN [chunks |-> Append(st.chunks,
                                       MakeChunk(st.word_chunk, filename, st.chunk_index)),
                     chunk_index |-> st.chunk_index,
                     word_chunk |-> kept,
                     word_tokens |-> EstimateTokens(Join(kept))]
            ELSE st
    IN [flushed EXCEPT !.word_chunk = Append(@, word),
                       !.word_tokens = @ + word_token_count]

\* lines 81-98: one pass of the loop over the words of an oversized
\* sentence; st holds chunks, chunk_index, word_chunk and word_tokens
WordStep(word, st, filename, chunk_size, chunk_overlap) ==
    LET word_token_count == EstimateTokens(word)
        flushed ==
            IF st.word_tokens + word_token_count > chunk_size /\ st.word_chunk # <<>>
            THEN LET overlap_words ==
                         Max(1, (Len(st.word_chunk) * chunk_overlap) \div chunk_size)
                     kept == LastN(st.word_chunk, overlap_words)
                 IN [chunks |-> Append(st.chunks,
                                       MakeChunk(st.word_chunk, filename, st.chunk_index)),
                     chunk_index |-> st.chunk_index + 1,
                     word_chunk |-> kept,
                     word_tokens |-> EstimateTokens(Join(kept))]
            ELSE st
    IN [flushed EXCEPT !.word_chunk = Append(@, word),
                       !.word_tokens = @ + word_token_count]

\* lines 80-98: the loop over the words of an oversized sentence
RECURSIVE WordLoop(_, _, _, _, _, _)
WordLoop(words, k, st, filename, chunk_size, chunk_overlap) ==
    IF k > Len(words) THEN st
    ELSE WordLoop(words, k + 1,
                  WordStep(<<words[k]>>, st, filename, chunk_size, chunk_overlap),
                  filename, chunk_size, chunk_overlap)

\* lines 62-78: before the words of an oversized sentence, flush the current
\* chunk and start an empty word_chunk; st holds chunks, chunk_index,
\* current_chunk and current_tokens
OversizedBegin(st, filename) ==
    LET st1 == IF st.current_chunk # <<>>
               THEN [chunks |-> Append(st.chunks,
                         MakeChunk(st.current_chunk, filename, st.chunk_index)),
                     chunk_index |-> st.chunk_index + 1,
                     current_chunk |-> <<>>,
                     current_tokens |-> 0]
               ELSE st
    IN [chunks |-> st1.chunks, chunk_index |-> st1.chunk_index,
        word_chunk |-> <<>>, word_tokens |-> 0]

\* lines 100-103: after the words of an oversized sentence, word_chunk is
\* the current chunk; w is the state the word loop ended in
OversizedEnd(w) ==
    IF w.word_chunk # <<>>
    THEN [chunks |-> w.chunks, chunk_index |-> w.chunk_index,
          current_chunk |-> w.word_chunk, current_tokens |-> w.word_tokens]
    ELSE [chunks |-> w.chunks, chunk_index |-> w.chunk_index,
          current_chunk |-> <<>>, current_tokens |-> 0]

\* A variant of FlushNeeded that flushes one token late
FlushNeededMutLate(st, sentence_tokens, chunk_size) ==
    st.current_tokens + sentence_tokens > chunk_size + 1 /\ st.current_chunk # <<>>

\* line 106: adding the sentence exceeds the chunk size
FlushNeeded(st, sentence_tokens, chunk_size) ==
    st.current_tokens + sentence_tokens > chunk_size /\ st.current_chunk # <<>>

\* lines 105-131: one pass of the loop over the sentences for a sentence
\* that fits the chunk size
SentenceStep(sentence, st, filename, chunk_size, chunk_overlap) ==
    LET sentence_tokens == EstimateTokens(sentence)
        st1 == IF FlushNeeded(st, sentence_tokens, chunk_size)
               THEN LET ov == OverlapWalk(st.current_chunk, Len(st.current_chunk),
                                          <<>>, 0, chunk_overlap)
                    IN [chunks |-> Append(st.chunks,
                            MakeChunk(st.current_chunk, filename, st.chunk_index)),
                        chunk_index |-> st.chunk_index + 1,
                        current_chunk |-> ov.sents,
                        current_tokens |-> ov.tokens]
               ELSE st
    IN [st1 EXCEPT !.current_chunk = Append(@, sentence),
                   !.current_tokens = @ + sentence_tokens]

\* lines 57-131: the loop over the sentences
RECURSIVE SentenceLoop(_, _, _, _, _, _)
SentenceLoop(sentences, k, st, filename, chunk_size, chunk_overlap) ==
    IF k > Len(sentences) THEN st
    ELSE LET sentence == sentences[k] IN
         IF EstimateTokens(sentence) > chunk_size
         THEN LET w == WordLoop(SplitWords(sentence), 1, OversizedBegin(st, filename),
                                filename, chunk_size, chunk_overlap)
              IN SentenceLoop(sentences, k + 1, OversizedEnd(w),
                              filename, chunk_size, chunk_overlap)
         ELSE SentenceLoop(sentences, k + 1,
                           SentenceStep(sentence, st, filename, chunk_size, chunk_overlap),
                           filename, chunk_size, chunk_overlap)

\* A variant of FinalFlush that returns without the remaining buffer
FinalFlushMutDropLast(st, filename) == st.chunks

\* lines 134-143: the last chunk, and the list returned
FinalFlush(st, filename) ==
    IF st.current_chunk # <<>>
    THEN Append(st.chunks, MakeChunk(st.current_chunk, filename, st.chunk_index))
    ELSE st.chunks

\* lines 52-55: the state before the loop
LoopStart == [chunks |-> <<>>, chunk_index |-> 0, current_chunk |-> <<>>, current_tokens |-> 0]

\* chunk_text(text, filename, chunk_size, chunk_overlap)
ChunkText(text, filename, chunk_size, chunk_overlap) ==
    IF IsBlank(text) THEN <<>>
    ELSE FinalFlush(SentenceLoop(SplitSentences(Normalize(text)), 1, LoopStart,
                                 filename, chunk_size, chunk_overlap),
                    filename)

(***************************************************************************)
(* chunk_text step by step                                                 *)
(***************************************************************************)
MaxTextLen == 5        \* items of a text given to chunk_text
MaxChunkSize == 3      \* largest chunk_size
MaxChunkOverlap == 2   \* largest chunk_overlap

\* the texts of n items; a word is named by its place in the text
TextsOfLen(n) ==
    {[i \in 1..n |-> IF kind[i] = "space" THEN Whitespace ELSE Word(i, kind[i] = "stop")] :
        kind \in [1..n -> {"space", "word", "stop"}]}

Texts == UNION {TextsOfLen(n) : n \in 0..MaxTextLen}

\* the arguments given to chunk_text
ChunkInputs ==
    [text : Texts, filename : {"a.txt"},
     chunk_size : 1..MaxChunkSize, chunk_overlap : 0..MaxChunkOverlap]

\* the word loop's locals before an oversized sentence was met
NoWords == [chunks |-> <<>>, chunk_index |-> 0, word_chunk |-> <<>>, word_tokens |-> 0]

\* no chunk_text call has begun on the arguments cin
ChunkerAt(input) ==
    /\ cin = input
    /\ cpc = "idle"
    /\ sentenceList = <<>>
    /\ spos = 1
    /\ cst = LoopStart
    /\ wordList = <<>>
    /\ wpos = 1
    /\ wst = NoWords
    /\ flushes = <<>>
    /\ estimated = -1

ChunkerInit == \E input \in ChunkInputs : ChunkerAt(input)

ChunkerIdle ==
    ChunkerAt([text |-> <<>>, filename |-> "a.txt", chunk_size |-> 1, chunk_overlap |-> 0])

\* estimate_tokens(text)
EstimateTokensCall ==
    /\ estimated = -1
    /\ estimated' = EstimateTokens(cin.text)
    /\ UNCHANGED <<cin, cpc, sentenceList, spos, cst, wordList, wpos, wst, flushes,
                   routerVars, storeVars, qaVars, raceVars>>

\* lines 43-55: return [] for a blank text, else split it into sentences
ChunkBegin ==
    /\ cpc = "idle"
    /\ IF IsBlank(cin.text)
       THEN /\ cpc' = "done"
            /\ UNCHANGED sentenceList
       ELSE /\ cpc' = "sentences"
            /\ sentenceList' = SplitSentences(Normalize(cin.text))
    /\ spos' = 1
    /\ cst' = LoopStart
    /\ UNCHANGED <<cin, wordList, wpos, wst, flushes, estimated, routerVars, storeVars, qaVars, raceVars>>

\* lines 57-59, 105-131: a sentence that fits the chunk size
ChunkSentence ==
    /\ cpc = "sentences"
    /\ spos <= Len(sentenceList)
    /\ EstimateTokens(sentenceList[spos]) <= cin.chunk_size
    /\ cst' = SentenceStep(sentenceList[spos], cst, cin.filename,
                           cin.chunk_size, cin.chunk_overlap)
    /\ flushes' = IF Len(cst'.chunks) > Len(cst.chunks)
                  THEN Append(flushes,
                              [buffer |-> cst.current_chunk, at |-> "sentence",
                               kept |-> SubSeq(cst'.current_chunk, 1,
                                               Len(cst'.current_chunk) - 1)])
                  ELSE flushes
    /\ spos' = spos + 1
    /\ UNCHANGED <<cin, cpc, sentenceList, wordList, wpos, wst, estimated,
                   routerVars, storeVars, qaVars, raceVars>>

\* lines 57-78: a sentence that exceeds the chunk size, up to its word loop
ChunkOversized ==
    /\ cpc = "sentences"
    /\ spos <= Len(sentenceList)
    /\ EstimateTokens(sentenceList[spos]) > cin.chunk_size
    /\ wst' = OversizedBegin(cst, cin.filename)
    /\ flushes' = IF Len(wst'.chunks) > Len(cst.chunks)
                  THEN Append(flushes,
                              [buffer |-> cst.current_chunk, at |-> "oversized",
                               kept |-> <<>>])
                  ELSE flushes
    /\ wordList' = SplitWords(sentenceList[spos])
    /\ wpos' = 1
    /\ cpc' = "words"
    /\ UNCHANGED <<cin, sentenceList, spos, cst, estimated, routerVars, storeVars, qaVars, raceVars>>

\* lines 80-98: one word of the oversized sentence
ChunkWord ==
    /\ cpc = "words"
    /\ wpos <= Len(wordList)
    /\ wst' = WordStep(<<wordList[wpos]>>, wst, cin.filename,
                       cin.chunk_size, cin.chunk_overlap)
    /\ flushes' = IF Len(wst'.chunks) > Len(wst.chunks)
                  THEN Append(flushes,
                              [buffer |-> wst.word_chunk, at |-> "word",
                               kept |-> SubSeq(wst'.word_chunk, 1,
                                               Len(wst'.word_chunk) - 1)])
                  ELSE flushes
    /\ wpos' = wpos + 1
    /\ UNCHANGED <<cin, cpc, sentenceList, spos, cst, wordList, estimated,
                   routerVars, storeVars, qaVars, raceVars>>

\* lines 100-103: after the last word, go on with the next sentence
ChunkOversizedEnd ==
    /\ cpc = "words"
    /\ wpos > Len(wordList)
    /\ cst' = OversizedEnd(wst)
    /\ spos' = spos + 1
    /\ cpc' = "sentences"
    /\ UNCHANGED <<cin, sentenceList, wordList, wpos, wst, flushes, estimated,
                   routerVars, storeVars, qaVars, raceVars>>

\* lines 133-143: after the last sentence, the last chunk and the return
ChunkFinal ==
    /\ cpc = "sentences"
    /\ spos > Len(sentenceList)
    /\ cst' = [cst EXCEPT !.chunks = FinalFlush(cst, cin.filename)]
    /\ flushes' = IF cst.current_chunk # <<>>
                  THEN Append(flushes,
                              [buffer |-> cst.current_chunk, at |-> "final", kept |-> <<>>])
                  ELSE flushes
    /\ cpc' = "done"
    /\ UNCHANGED <<cin, sentenceList, spos, wordList, wpos, wst, estimated,
                   routerVars, storeVars, qaVars, raceVars>>

ChunkerNext ==
    ChunkBegin \/ ChunkSentence \/ ChunkOversized \/ ChunkWord \/ ChunkOversizedEnd
        \/ ChunkFinal

(***************************************************************************)
(* FAISSRetriever (retriever.py)                                           *)
(***************************************************************************)

\* self.index = None
NoIndex == [none |-> TRUE, vectors |-> <<>>]

\* self.model.encode(text, normalize_embeddings=True): the embedding model is
\* external; a text's vector is a fixed function of the text
Embed(text) ==
    LET ws == SplitWords(text) IN
    IF ws = <<>> THEN 0 ELSE (ws[1].w + Len(ws)) % EmbRange

\* squared L2 distance of IndexFlatL2
Distance(a, b) == (a - b) * (a - b)

\* self.index.ntotal
NTotal(ix) == IF ix.none THEN 0 ELSE Len(ix.vectors)

\* A variant of AfterAdd that leaves out chunks the store already holds
AfterAddMutDedup(ix, chs, cs) ==
    LET fresh == SelectSeq(cs, LAMBDA c : c \notin Range(chs)) IN
    [index |-> [none |-> FALSE,
                vectors |-> ix.vectors \o [i \in 1..Len(fresh) |-> Embed(fresh[i].text)]],
     chunks |-> chs \o fresh,
     ret |-> Len(cs)]

\* A variant of AfterAdd that puts the new chunks in front of the stored ones
AfterAddMutPrepend(ix, chs, cs) ==
    IF cs = <<>> THEN [index |-> ix, chunks |-> chs, ret |-> 0]
    ELSE [index |-> [none |-> FALSE,
                     vectors |-> [i \in 1..Len(cs) |-> Embed(cs[i].text)] \o ix.vectors],
          chunks |-> cs \o chs,
          ret |-> Len(cs)]

\* add_chunks(chunks): the index, the chunk list and the return value after it
AfterAdd(ix, chs, cs) ==
    IF cs = <<>> THEN [index |-> ix, chunks |-> chs, ret |-> 0]
    ELSE [index |-> [none |-> FALSE,
                     vectors |-> ix.vectors \o [i \in 1..Len(cs) |-> Embed(cs[i].text)]],
          chunks |-> chs \o cs,
          ret |-> Len(cs)]

\* A variant of AfterClear that keeps the index
AfterClearMutKeepIndex(ix, chs) == [index |-> ix, chunks |-> <<>>]

\* clear(): self.index = None, self.chunks = []
AfterClear(ix, chs) == [index |-> NoIndex, chunks |-> <<>>]

\* get_stats()
GetStats(ix, chs) == [total_chunks |-> Len(chs), index_size |-> NTotal(ix)]

\* self.index.search(query_embedding, top_k): the k nearest storage positions
\* in order of distance.  The order of equally distant vectors is left to
\* FAISS, so every such order is an outcome.
IndexSearch(ix, q, k) ==
    {s \in [1..k -> 1..NTotal(ix)] :
        /\ \A i, j \in 1..k : i # j => s[i] # s[j]
        /\ \A i, j \in 1..k :
               i < j => Distance(ix.vectors[s[i]], q) <= Distance(ix.vectors[s[j]], q)
        /\ \A p \in 1..NTotal(ix) :
               p \notin Range(s) =>
                   \A i \in 1..k : Distance(ix.vectors[s[i]], q) <= Distance(ix.vectors[p], q)}

\* A variant of BuildResults whose bound on the storage position is one short
BuildResultsMutOffByOne(ix, chs, q, order) ==
    LET hits == [i \in 1..Len(order) |->
                    [idx |-> order[i], dist |-> Distance(ix.vectors[order[i]], q), rank |-> i]]
        kept == SelectSeq(hits, LAMBDA h : h.idx < Len(chs))
    IN [j \in 1..Len(kept) |->
           [text |-> chs[kept[j].idx].text,
            filename |-> chs[kept[j].idx].filename,
            chunk_index |-> chs[kept[j].idx].chunk_index,
            token_estimate |-> chs[kept[j].idx].token_estimate,
            score |-> <<1, 1 + kept[j].dist>>,
            rank |-> kept[j].rank]]

\* lines 103-112: the results built from one answer of the index; a score
\* 1 / (1 + dist) is kept as the pair <<1, 1 + dist>>
BuildResults(ix, chs, q, order) ==
    LET hits == [i \in 1..Len(order) |->
                    [idx |-> order[i], dist |-> Distance(ix.vectors[order[i]], q), rank |-> i]]
        kept == SelectSeq(hits, LAMBDA h : h.idx <= Len(chs))
    IN [j \in 1..Len(kept) |->
           [text |-> chs[kept[j].idx].text,
            filename |-> chs[kept[j].idx].filename,
            chunk_index |-> chs[kept[j].idx].chunk_index,
            token_estimate |-> chs[kept[j].idx].token_estimate,
            score |-> <<1, 1 + kept[j].dist>>,
            rank |-> kept[j].rank]]

\* search(query, top_k): the set of result lists it can return
SearchResults(ix, chs, query, top_k) ==
    IF ix.none \/ NTotal(ix) = 0 THEN {<<>>}
    ELSE LET k == Min(top_k, NTotal(ix))
             q == Embed(query)
         IN {BuildResults(ix, chs, q, order) : order \in IndexSearch(ix, q, k)}

\* a search result without the score and rank that search added to it
ResultChunk(r) ==
    [text |-> r.text, filename |-> r.filename, chunk_index |-> r.chunk_index,
     token_estimate |-> r.token_estimate]

Filenames == {"a.txt", "b.pdf"}

\* the queries given to search
Queries == {<<Word(1, FALSE)>>, <<Word(2, FALSE), Word(3, TRUE)>>}

\* the chunk dicts given to add_chunks directly; two chunks of a.txt have the
\* same text, so the same vector
ChunkPool ==
    {[text |-> <<Word(1, TRUE)>>, filename |-> "a.txt", chunk_index |-> 0,
      token_estimate |-> 1],
     [text |-> <<Word(1, TRUE)>>, filename |-> "a.txt", chunk_index |-> 1,
      token_estimate |-> 1],
     [text |-> <<Word(6, FALSE), Word(7, FALSE), Word(8, TRUE)>>, filename |-> "b.pdf",
      chunk_index |-> 0, token_estimate |-> 3]}

ChunkLists == UNION {[1..n -> ChunkPool] : n \in 0..MaxAdd}

StoreInit ==
    /\ index = NoIndex
    /\ chunks = <<>>
    /\ dropped = -1
    /\ addedCount = 0
    /\ addedList = <<>>
    /\ lastOp = [op |-> "init"]
    /\ lastRet = [value |-> NoneVal]

\* retriever.add_chunks(cs)
AddChunks ==
    \E cs \in ChunkLists :
        /\ Len(chunks) + Len(cs) <= MaxStore
        /\ LET after == AfterAdd(index, chunks, cs) IN
           /\ index' = after.index
           /\ chunks' = after.chunks
           /\ lastRet' = [value |-> after.ret]
        /\ addedCount' = addedCount + Len(cs)
        /\ addedList' = addedList \o cs
        /\ lastOp' = [op |-> "add_chunks", n |-> Len(cs)]
        /\ UNCHANGED <<dropped, routerVars, restVars>>

\* retriever.search(query, top_k)
Search ==
    \E query \in Queries, top_k \in 1..MaxTopK :
        /\ \E res \in SearchResults(index, chunks, query, top_k) :
               lastRet' = [value |-> res]
        /\ lastOp' = [op |-> "search", query |-> query, top_k |-> top_k]
        /\ UNCHANGED <<index, chunks, dropped, addedCount, addedList, routerVars, restVars>>

\* retriever.get_stats()
Stats ==
    /\ lastOp' = [op |-> "get_stats"]
    /\ lastRet' = [value |-> GetStats(index, chunks)]
    /\ UNCHANGED <<index, chunks, dropped, addedCount, addedList, routerVars, restVars>>

\* retriever.clear()
Clear ==
    /\ LET after == AfterClear(index, chunks) IN
       /\ index' = after.index
       /\ chunks' = after.chunks
    /\ dropped' = Len(chunks)
    /\ addedCount' = 0
    /\ addedList' = <<>>
    /\ lastOp' = [op |-> "clear"]
    /\ lastRet' = [value |-> NoneVal]
    /\ UNCHANGED <<routerVars, restVars>>

StoreNext == AddChunks \/ Search \/ Stats \/ Clear

(***************************************************************************)
(* add_chunks or clear in one thread, search in another (retriever.py)     *)
(*                                                                         *)
(* The class takes no lock, so a step of one thread can follow any step of *)
(* the other.  A step is a read or a write of self.index or self.chunks.   *)
(***************************************************************************)
MaxRaceStore == 2   \* most chunks held by the store the two threads share
MaxRaceAdd == 1     \* longest chunk list given to add_chunks by its thread

\* the chunk lists given to add_chunks by its thread
RaceChunkLists == UNION {[1..n -> ChunkPool] : n \in 0..MaxRaceAdd}

NoSearch == [query |-> <<>>, top_k |-> 0, k |-> 0, hits |-> <<>>,
             index_size |-> 0, total_chunks |-> 0]

RaceIdle ==
    /\ mpc = "idle"
    /\ mpend = <<>>
    /\ spc = "idle"
    /\ sloc = NoSearch
    /\ sret = [value |-> NoneVal]

\* A variant of IndexAdd that adds one vector less than it was given
IndexAddMutDropLast(ix, cs) ==
    [none |-> FALSE,
     vectors |-> ix.vectors \o [i \in 1..(Len(cs) - 1) |-> Embed(cs[i].text)]]

\* line 67: self.index.add(embeddings)
IndexAdd(ix, cs) ==
    [none |-> FALSE, vectors |-> ix.vectors \o [i \in 1..Len(cs) |-> Embed(cs[i].text)]]

\* lines 48-64: add_chunks up to the creation of the index
AddBegin ==
    \E cs \in RaceChunkLists :
        /\ mpc = "idle"
        /\ Len(chunks) + Len(cs) <= MaxRaceStore
        /\ IF cs = <<>>
           THEN UNCHANGED <<mpc, mpend, index>>
           ELSE /\ mpc' = "add_begun"
                /\ mpend' = cs
                /\ index' = IF index.none THEN [none |-> FALSE, vectors |-> <<>>] ELSE index
        /\ UNCHANGED <<chunks, dropped, addedCount, addedList, lastOp, lastRet,
                       spc, sloc, sret, routerVars, chunkerVars, qaVars>>

\* line 67
AddIndex ==
    /\ mpc = "add_begun"
    /\ index' = IndexAdd(index, mpend)
    /\ mpc' = "add_indexed"
    /\ UNCHANGED <<chunks, dropped, addedCount, addedList, lastOp, lastRet,
                   mpend, spc, sloc, sret, routerVars, chunkerVars, qaVars>>

\* lines 70-72: self.chunks.extend(chunks), return
AddExtend ==
    /\ mpc = "add_indexed"
    /\ chunks' = chunks \o mpend
    /\ mpc' = "idle"
    /\ mpend' = <<>>
    /\ UNCHANGED <<index, dropped, addedCount, addedList, lastOp, lastRet,
                   spc, sloc, sret, routerVars, chunkerVars, qaVars>>

\* line 126: self.index = None
ClearIndex ==
    /\ mpc = "idle"
    /\ index' = NoIndex
    /\ mpc' = "clear_reset"
    /\ UNCHANGED <<chunks, dropped, addedCount, addedList, lastOp, lastRet,
                   mpend, spc, sloc, sret, routerVars, chunkerVars, qaVars>>

\* line 127: self.chunks = []
ClearChunks ==
    /\ mpc = "clear_reset"
    /\ chunks' = <<>>
    /\ mpc' = "idle"
    /\ UNCHANGED <<index, dropped, addedCount, addedList, lastOp, lastRet,
                   mpend, spc, sloc, sret, routerVars, chunkerVars, qaVars>>

\* lines 85-86: `if self.index is None or self.index.ntotal == 0: return []`
SearchCheck ==
    \E query \in Queries, top_k \in 1..MaxTopK :
        /\ spc \in {"idle", "done"}
        /\ sloc' = [NoSearch EXCEPT !.query = query, !.top_k = top_k]
        /\ IF index.none \/ NTotal(index) = 0
           THEN spc' = "done" /\ sret' = [value |-> <<>>]
           ELSE spc' = "checked" /\ sret' = [value |-> NoneVal]
        /\ UNCHANGED <<storeVars, mpc, mpend, routerVars, chunkerVars, qaVars>>

\* line 89: top_k = min(top_k, self.index.ntotal); None has no ntotal
SearchClamp ==
    /\ spc = "checked"
    /\ IF index.none
       THEN /\ spc' = "done"
            /\ sret' = [raised |-> "AttributeError"]
            /\ UNCHANGED sloc
       ELSE /\ spc' = "clamped"
            /\ sloc' = [sloc EXCEPT !.k = Min(sloc.top_k, NTotal(index)),
                                    !.index_size = NTotal(index)]
            /\ UNCHANGED sret
    /\ UNCHANGED <<storeVars, mpc, mpend, routerVars, chunkerVars, qaVars>>

\* the hits of self.index.search for k neighbours: the nearest positions with
\* their distances; FAISS fills the places for which the index has no vector
\* with the label -1
SearchHits(ix, q, k) ==
    LET have == Min(k, NTotal(ix)) IN
    {[i \in 1..k |-> IF i <= have
                     THEN [idx |-> order[i], dist |-> Distance(ix.vectors[order[i]], q)]
                     ELSE [idx |-> -1, dist |-> -1]] :
        order \in IndexSearch(ix, q, have)}

\* line 100: self.index.search(query_embedding, top_k)
SearchIndex ==
    /\ spc = "clamped"
    /\ IF index.none
       THEN /\ spc' = "done"
            /\ sret' = [raised |-> "AttributeError"]
            /\ UNCHANGED sloc
       ELSE /\ \E hits \in SearchHits(index, Embed(sloc.query), sloc.k) :
                   sloc' = [sloc EXCEPT !.hits = hits]
            /\ spc' = "searched"
            /\ UNCHANGED sret
    /\ UNCHANGED <<storeVars, mpc, mpend, routerVars, chunkerVars, qaVars>>

\* lines 103-110 for the chunk list chs: a hit below len(self.chunks) gives a
\* result; the label -1 passes that test and reads self.chunks[-1], the last
\* chunk, or raises IndexError on an empty list
RaceResults(hits, chs) ==
    LET kept == SelectSeq([i \in 1..Len(hits) |-> [hit |-> hits[i], rank |-> i]],
                          LAMBDA h : h.hit.idx <= Len(chs))
        at(h) == IF h.hit.idx = -1 THEN Len(chs) ELSE h.hit.idx
    IN IF chs = <<>> /\ \E i \in 1..Len(kept) : kept[i].hit.idx = -1
       THEN [raised |-> "IndexError"]
       ELSE [value |->
               [j \in 1..Len(kept) |->
                   [text |-> chs[at(kept[j])].text,
                    filename |-> chs[at(kept[j])].filename,
                    chunk_index |-> chs[at(kept[j])].chunk_index,
                    token_estimate |-> chs[at(kept[j])].token_estimate,
                    score |-> IF kept[j].hit.idx = -1 THEN <<0, 1>>
                              ELSE <<1, 1 + kept[j].hit.dist>>,
                    rank |-> kept[j].rank]]]

\* lines 102-112: the results are built from self.chunks and returned
SearchBuild ==
    /\ spc = "searched"
    /\ sret' = RaceResults(sloc.hits, chunks)
    /\ sloc' = [sloc EXCEPT !.total_chunks = Len(chunks), !.hits = <<>>]
    /\ spc' = "done"
    /\ UNCHANGED <<storeVars, mpc, mpend, routerVars, chunkerVars, qaVars>>

MutatorNext == AddBegin \/ AddIndex \/ AddExtend \/ ClearIndex \/ ClearChunks
SearcherNext == SearchCheck \/ SearchClamp \/ SearchIndex \/ SearchBuild
RaceNext == MutatorNext \/ SearcherNext

(***************************************************************************)
(* Ingestion (ingest.py)                                                   *)
(***************************************************************************)
CHUNK_SIZE == 600
CHUNK_OVERLAP == 100

\* text.strip()
StripText(text) ==
    IF IsBlank(text) THEN <<>>
    ELSE LET first == CHOOSE x \in 1..Len(text) :
                          IsWord(text[x]) /\ \A y \in 1..(x - 1) : ~IsWord(text[y])
             last == CHOOSE x \in 1..Len(text) :
                         IsWord(text[x]) /\ \A y \in (x + 1)..Len(text) : ~IsWord(text[y])
         IN SubSeq(text, first, last)

\* the names a file is uploaded under, and what each ends with
UploadNames == Filenames \cup {"c.doc"}
Extension(filename) ==
    CASE filename = "a.txt" -> ".txt"
      [] filename = "b.pdf" -> ".pdf"
      [] filename = "c.doc" -> ".doc"

\* load_document(content, filename): the extracted text, stripped, or the
\* exception that leaves it.  load_txt decodes any bytes; load_pdf raises
\* when PyMuPDF cannot be imported or cannot open the content (pdf_ok is
\* FALSE); any other extension raises ValueError.
LoadDocument(content, filename, pdf_ok) ==
    IF Extension(filename) = ".txt" THEN [raised |-> "none", text |-> StripText(content)]
    ELSE IF Extension(filename) = ".pdf"
    THEN IF pdf_ok THEN [raised |-> "none", text |-> StripText(content)]
         ELSE [raised |-> "PdfError", text |-> <<>>]
    ELSE [raised |-> "ValueError", text |-> <<>>]

\* a document of nSent sentences of wordsPer words each
SentenceDoc(nSent, wordsPer) ==
    [i \in 1..(nSent * wordsPer) |-> Word(i, i % wordsPer = 0)]

SentenceWords == 76     \* words per sentence of the long document
LongSentences == 8      \* sentences of the long document

\* the contents uploaded: empty, whitespace only, two short sentences with
\* runs of whitespace, and a document that fills more than one chunk
Documents ==
    {<<>>,
     <<Whitespace, Whitespace>>,
     <<Whitespace, Word(1, FALSE), Word(2, FALSE), Word(3, TRUE), Whitespace,
       Word(4, FALSE), Word(5, TRUE), Whitespace>>,
     SentenceDoc(LongSentences, SentenceWords)}

\* A variant of IngestResult that reports the chunks it created as the total
IngestResultMutTotalIsCreated(ix, chs, content, filename, pdf_ok) ==
    LET loaded == LoadDocument(content, filename, pdf_ok)
        text == loaded.text
        cs == ChunkText(text, filename, CHUNK_SIZE, CHUNK_OVERLAP)
        after == AfterAdd(ix, chs, cs)
    IN IF loaded.raised # "none"
       THEN [ret |-> [raised |-> loaded.raised], index |-> ix, chunks |-> chs,
             added |-> <<>>]
       ELSE IF IsBlank(text)
       THEN [ret |-> [success |-> FALSE,
                      error |-> "No text content extracted from document",
                      filename |-> filename],
             index |-> ix, chunks |-> chs, added |-> <<>>]
       ELSE IF cs = <<>>
       THEN [ret |-> [success |-> FALSE,
                      error |-> "Failed to create chunks from document",
                      filename |-> filename],
             index |-> ix, chunks |-> chs, added |-> <<>>]
       ELSE [ret |-> [success |-> TRUE,
                      filename |-> filename,
                      chunks_created |-> after.ret,
                      total_chunks_in_store |-> after.ret],
             index |-> after.index, chunks |-> after.chunks, added |-> cs]

\* ingest_document(content, filename) on the store (ix, chs): what it returns
\* or raises, the store after it, and the chunks it added
IngestResult(ix, chs, content, filename, pdf_ok) ==
    LET loaded == LoadDocument(content, filename, pdf_ok)
        text == loaded.text
        cs == ChunkText(text, filename, CHUNK_SIZE, CHUNK_OVERLAP)
        after == AfterAdd(ix, chs, cs)
    IN IF loaded.raised # "none"
       THEN [ret |-> [raised |-> loaded.raised], index |-> ix, chunks |-> chs,
             added |-> <<>>]
       ELSE IF IsBlank(text)
       THEN [ret |-> [success |-> FALSE,
                      error |-> "No text content extracted from document",
                      filename |-> filename],
             index |-> ix, chunks |-> chs, added |-> <<>>]
       ELSE IF cs = <<>>
       THEN [ret |-> [success |-> FALSE,
                      error |-> "Failed to create chunks from document",
                      filename |-> filename],
             index |-> ix, chunks |-> chs, added |-> <<>>]
       ELSE [ret |-> [success |-> TRUE,
                      filename |-> filename,
                      chunks_created |-> after.ret,
                      total_chunks_in_store |-> Len(after.chunks)],
             index |-> after.index, chunks |-> after.chunks, added |-> cs]

\* ingest_document(content, filename)
IngestDocument ==
    \E content \in Documents, filename \in Filenames, pdf_ok \in BOOLEAN :
        LET res == IngestResult(index, chunks, content, filename, pdf_ok) IN
        /\ Len(res.chunks) <= MaxStore
        /\ lastOp' = [op |-> "ingest_document", filename |-> filename]
        /\ lastRet' = [value |-> res.ret]
        /\ index' = res.index
        /\ chunks' = res.chunks
        /\ addedCount' = addedCount + Len(res.added)
        /\ addedList' = addedList \o res.added
        /\ UNCHANGED <<dropped, routerVars, restVars>>

\* POST /upload (main.py upload_document): the response, as the status code
\* with the UploadResponse body or the HTTPException's detail.  size_ok says
\* that the content is at most 5 MB long.
UploadDocument ==
    \E content \in Documents, filename \in UploadNames, pdf_ok \in BOOLEAN,
       size_ok \in BOOLEAN :
        LET res == IngestResult(index, chunks, content, filename, pdf_ok) IN
        /\ lastOp' = [op |-> "upload_document", filename |-> filename]
        /\ IF Extension(filename) \notin {".pdf", ".txt"}
           THEN /\ lastRet' = [value |-> [status_code |-> 400,
                                          detail |-> "Only .pdf and .txt files are supported"]]
                /\ UNCHANGED <<index, chunks, addedCount, addedList>>
           ELSE IF ~size_ok
           THEN /\ lastRet' = [value |-> [status_code |-> 400,
                                          detail |-> "File too large. Maximum size is 5MB."]]
                /\ UNCHANGED <<index, chunks, addedCount, addedList>>
           ELSE /\ Len(res.chunks) <= MaxStore
                /\ lastRet' =
                       [value |-> IF "raised" \in DOMAIN res.ret
                                  THEN [status_code |-> 500, detail |-> "Ingestion failed: "]
                                  ELSE [status_code |-> 200, body |-> res.ret]]
                /\ index' = res.index
                /\ chunks' = res.chunks
                /\ addedCount' = addedCount + Len(res.added)
                /\ addedList' = addedList \o res.added
        /\ UNCHANGED <<dropped, routerVars, restVars>>

IngestNext == IngestDocument \/ Stats \/ Clear
UploadNext == UploadDocument \/ Clear

(***************************************************************************)
(* Question answering (qa.py)                                              *)
(***************************************************************************)
MaxQAStore == 2     \* most chunks in the store when a question is asked

\* the model lists of the router behind answer_question: the configured one,
\* and one whose first model has too small a context for every prompt
QAModelLists == {MODELS, <<MaxCtx, 4000>>}

\* build_context(chunks), as the number of its whitespace-separated words:
\* "[source:", the filename with its comma, "chunk" and the index with its
\* bracket before each chunk's text, and "---" between two chunks
RECURSIVE ContextWords(_)
ContextWords(chs) ==
    IF chs = <<>> THEN 0
    ELSE 4 + Len(SplitWords(Head(chs).text))
           + (IF Len(chs) > 1 THEN 1 ELSE 0) + ContextWords(Tail(chs))

\* lines 90-93: context_tokens + question_tokens + prompt_overhead
TotalTokens(chs, question) ==
    (13 * ContextWords(chs)) \div 10 + EstimateTokens(question) + 150

\* round(score, 3) of the score n / d, in thousandths
RoundMilli(score) == (2000 * score[1] + score[2]) \div (2 * score[2])

\* format_citations(chunks); every text of the model is shorter than the 200
\* characters at which text_preview is cut
FormatCitations(chs) ==
    [i \in 1..Len(chs) |->
        [filename |-> chs[i].filename,
         chunk_index |-> chs[i].chunk_index,
         text_preview |-> chs[i].text,
         relevance_score |-> RoundMilli(chs[i].score)]]

\* the dict returned at lines 65-71 and 78-84
FailureResult(error) ==
    [success |-> FALSE, error |-> error, answer |-> NoneVal, citations |-> <<>>,
     model_used |-> NoneVal]

EmptyStoreError == "No documents uploaded. Please upload a document first."
NoRelevantError == "No relevant content found for your question."

\* A variant of NoDocuments that looks at nothing but a missing count
NoDocumentsMutNever(stats) == stats.total_chunks < 0

\* line 64: if stats["total_chunks"] == 0
NoDocuments(stats) == stats.total_chunks = 0

\* lines 101-127: what answer_question returns, or the exception that leaves
\* it, once generate has ended with the outcome out
AfterGenerate(out, chs, total_tokens) ==
    IF out.tag = "return"
    THEN [success |-> TRUE, answer |-> out.text, citations |-> FormatCitations(chs),
          model_used |-> out.model_name, chunks_used |-> Len(chs),
          context_tokens |-> total_tokens]
    ELSE IF out.exc = "RuntimeError"
    THEN [success |-> FALSE, error |-> <<out.prefix, out.failed>>, answer |-> NoneVal,
          citations |-> FormatCitations(chs), model_used |-> NoneVal]
    ELSE [raised |-> out.exc]

QAIdle ==
    /\ qpc = "idle"
    /\ qarg = [question |-> <<>>, top_k |-> 0]
    /\ qstats = [total_chunks |-> 0, index_size |-> 0]
    /\ qsearched = FALSE
    /\ qchunks = <<>>
    /\ qret = [value |-> NoneVal]

\* answer_question(question, top_k) up to the call of llm_router.generate
\* (lines 62-105); generate then runs as SkipModel, StartCall, FinishCall and
\* RaiseAllFailed
Ask ==
    \E question \in Queries, top_k \in 1..MaxTopK :
        LET stats == GetStats(index, chunks) IN
        /\ qpc \in {"idle", "done"}
        /\ qarg' = [question |-> question, top_k |-> top_k]
        /\ qstats' = stats
        /\ IF NoDocuments(stats)
           THEN /\ qret' = [value |-> FailureResult(EmptyStoreError)]
                /\ qsearched' = FALSE
                /\ qchunks' = <<>>
                /\ qpc' = "done"
                /\ UNCHANGED <<rpc, est, up, pos, errors, calls, results, skipped, outcome>>
           ELSE \E res \in SearchResults(index, chunks, question, top_k) :
                /\ qsearched' = TRUE
                /\ qchunks' = res
                /\ IF res = <<>>
                   THEN /\ qret' = [value |-> FailureResult(NoRelevantError)]
                        /\ qpc' = "done"
                        /\ UNCHANGED <<rpc, est, up, pos, errors, calls, results, skipped,
                                       outcome>>
                   ELSE /\ qret' = [value |-> NoneVal]
                        /\ qpc' = "generating"
                        /\ est' = TotalTokens(res, question)
                        /\ \E u \in SUBSET (1..Len(models)) : up' = u
                        /\ rpc' = "loop"
                        /\ pos' = 1
                        /\ errors' = <<>>
                        /\ calls' = <<>>
                        /\ results' = <<>>
                        /\ skipped' = <<>>
                        /\ outcome' = NoOutcome
        /\ UNCHANGED <<models, storeVars, chunkerVars, raceVars>>

\* lines 106-127: generate has ended; answer_question returns, or the
\* exception generate raised leaves it
AnswerReturn ==
    /\ qpc = "generating"
    /\ rpc \in {"returned", "raised"}
    /\ qret' = [value |-> AfterGenerate(outcome, qchunks, est)]
    /\ qpc' = "done"
    /\ UNCHANGED <<qarg, qstats, qsearched, qchunks, routerVars, storeVars, chunkerVars,
                   raceVars>>

\* retriever.add_chunks before the questions are asked
AddBeforeAsk ==
    /\ qpc = "idle"
    /\ AddChunks
    /\ Len(chunks') <= MaxQAStore

QANext ==
    Ask \/ SkipModel \/ StartCall \/ FinishCall \/ RaiseAllFailed \/ AnswerReturn
        \/ AddBeforeAsk

\* the variables of the other components at rest
RestIdle == ChunkerIdle /\ QAIdle /\ RaceIdle

(***************************************************************************)
(* Specifications                                                          *)
(***************************************************************************)
Init == RouterInit /\ StoreInit /\ RestIdle
Next ==
    RouterNext \/ StoreNext \/ IngestDocument \/ UploadDocument \/ ChunkerNext
        \/ EstimateTokensCall \/ Ask \/ AnswerReturn \/ RaceNext
Spec == Init /\ [][Next]_vars

\* the router alone, for every model list
SpecRouter == Init /\ [][RouterNext]_vars

\* the retriever's operations alone
StoreOnlyInit == models = MODELS /\ RouterIdle /\ StoreInit /\ RestIdle
SpecStore == StoreOnlyInit /\ [][StoreNext]_vars

\* the ingestion pipeline over the store
SpecIngest == StoreOnlyInit /\ [][IngestNext]_vars

\* the upload endpoint over the store
SpecUpload == StoreOnlyInit /\ [][UploadNext]_vars

\* a thread in add_chunks or clear and a thread in search on one store
SpecRace == StoreOnlyInit /\ [][RaceNext]_vars

\* questions asked of the store through the router
QAInit == models \in QAModelLists /\ RouterIdle /\ StoreInit /\ RestIdle
SpecQA == QAInit /\ [][QANext]_vars

\* one chunk_text call on every text and every chunk size and overlap
ChunkerOnlyInit ==
    models = MODELS /\ RouterIdle /\ StoreInit /\ ChunkerInit /\ QAIdle /\ RaceIdle
SpecChunker == ChunkerOnlyInit /\ [][ChunkerNext]_vars

\* one estimate_tokens call on every text
SpecEstimate == ChunkerOnlyInit /\ [][EstimateTokensCall]_vars

(***************************************************************************)
(* Properties of the router                                                *)
(***************************************************************************)

\* the model at position j can take the estimated tokens
Eligible(j) == est <= models[j]

\* the k-th call gave answer text / failed
CallGaveText(k) == results[k].tag = "return" /\ results[k].value \in AnswerTexts
Terminated == rpc \in {"returned", "raised"}

\* the first eligible model whose endpoint answers with text, 0 if none
FirstUp ==
    IF \E j \in up : Eligible(j)
    THEN CHOOSE j \in up : Eligible(j) /\ \A i \in up : Eligible(i) => j <= i
    ELSE 0

\* C1: once a called model returns answer text, generate has returned with
\* that text and that model's name, and that call is the last call made.
C1_FirstSuccessWins ==
    \A k \in 1..Len(results) :
        CallGaveText(k) =>
            /\ k = Len(results)
            /\ Len(calls) = k
            /\ calls[k] = results[k].model
            /\ rpc = "returned"
            /\ outcome = [tag |-> "return", text |-> results[k].value,
                          model_name |-> results[k].model]

\* a success was returned although an eligible model follows in the list
C1_Witness ==
    /\ rpc = "returned"
    /\ CallGaveText(Len(results))
    /\ \E j \in 1..Len(models) : j > outcome.model_name /\ Eligible(j) /\ j \in up

\* C2: when generate ends and some eligible model's call succeeds, it has
\* returned the text and name of the first such model, and every eligible
\* model before it is recorded as a failed attempt, not as a skip.
C2_FirstEligibleSuccess ==
    (Terminated /\ FirstUp # 0) =>
        /\ rpc = "returned"
        /\ outcome.tag = "return"
        /\ outcome.model_name = FirstUp
        /\ outcome.text \in AnswerTexts
        /\ results[Len(results)].value = outcome.text
        /\ \A j \in 1..(FirstUp - 1) :
               Eligible(j) => j \in Range(errors) /\ j \notin Range(skipped)

\* C3: when the estimated tokens exceed every model's max_context_tokens,
\* generate fails with an outcome other than the all-models-failed one, with
\* no attempt record and no model call.
C3_NoEligibleModelDistinct ==
    (rpc = "raised" /\ \A j \in 1..Len(models) : est > models[j]) =>
        /\ calls = <<>>
        /\ outcome.failed = <<>>
        /\ outcome.prefix # AllFailedPrefix

\* C4: a model is called only if the estimated tokens fit its
\* max_context_tokens; a model they do not fit is skipped, never called and
\* never among the attempt failures.
C4_OnlyEligibleCalled ==
    /\ \A k \in 1..Len(calls) : Eligible(calls[k])
    /\ \A j \in 1..Len(models) :
           ~Eligible(j) =>
               /\ j \notin Range(calls)
               /\ j \notin Range(errors)
               /\ (rpc = "raised" /\ outcome.exc = "RuntimeError") =>
                      j \notin Range(outcome.failed)
               /\ j < pos => j \in Range(skipped)

\* one model was skipped for its context size and another was called
C4_Witness ==
    /\ rpc = "raised"
    /\ skipped # <<>>
    /\ calls # <<>>
    /\ \E j \in Range(skipped) : est = models[j] + 1

\* C5: when generate fails after exhausting the list, the failure list has
\* exactly one entry for each model that was called, in list order, and none
\* for a skipped model.
C5_FailureListExact ==
    (rpc = "raised" /\ outcome.exc = "RuntimeError") =>
        /\ outcome.failed = calls
        /\ \A a, b \in 1..Len(outcome.failed) :
               a < b => outcome.failed[a] < outcome.failed[b]
        /\ Range(outcome.failed) \cap Range(skipped) = {}

\* the list was exhausted with two failed attempts and a skip
C5_Witness ==
    /\ rpc = "raised"
    /\ outcome.exc = "RuntimeError"
    /\ Len(outcome.failed) = 2
    /\ Len(skipped) = 1

\* C6: every failure of a single model call is recorded as a failed attempt
\* of that model and generate goes on; nothing but the aggregated
\* all-models-failed error leaves generate.
C6_EveryFailureRecorded ==
    /\ \A k \in 1..Len(results) :
           ~CallGaveText(k) => results[k].model \in Range(errors)
    /\ rpc = "raised" =>
           outcome.exc = "RuntimeError" /\ outcome.prefix = AllFailedPrefix

\* C7: within one generate call every model is called at most once, so there
\* are at most as many calls as models.
C7_AtMostOnce ==
    /\ \A a, b \in 1..Len(calls) : a # b => calls[a] # calls[b]
    /\ Len(calls) <= Len(models)
    /\ \A j \in Range(errors) : Cardinality({k \in 1..Len(calls) : calls[k] = j}) = 1

\* every model of a list of three was called and failed
C7_Witness ==
    /\ rpc = "raised"
    /\ Len(models) = 3
    /\ Len(calls) = 3
    /\ errors = <<1, 2, 3>>

(***************************************************************************)
(* Properties of the store                                                 *)
(***************************************************************************)

\* C8: total_chunks is the sum of the sizes of the lists given to add_chunks
\* since the last clear, nothing is deduplicated, and add_chunks returns the
\* size of the list it was given.
C8_TotalIsSumOfAdds ==
    /\ GetStats(index, chunks).total_chunks = addedCount
    /\ lastOp.op = "add_chunks" => lastRet.value = lastOp.n
    /\ lastOp.op = "get_stats" => lastRet.value.total_chunks = addedCount

\* after a clear of a non-empty store, an add stored a chunk a second time
C8_Witness ==
    /\ dropped > 0
    /\ lastOp.op = "add_chunks"
    /\ lastRet.value = 2
    /\ addedCount = 3
    /\ \E a, b \in 1..Len(chunks) : a < b /\ chunks[a] = chunks[b]

\* C9: for each filename the chunk_index values of the stored chunks are
\* pairwise distinct and form 0..n-1.
C9_ChunkIndexContiguous ==
    \A f \in Filenames :
        LET at == {k \in 1..Len(chunks) : chunks[k].filename = f} IN
        /\ \A a, b \in at : a # b => chunks[a].chunk_index # chunks[b].chunk_index
        /\ {chunks[k].chunk_index : k \in at} = 0..(Cardinality(at) - 1)

\* C10: after clear the store is empty: the stats are zero, search returns
\* the empty sequence, a following add of n chunks gives total_chunks = n,
\* and a search returns only chunks added since the clear.
C10_ClearEmpties ==
    /\ lastOp.op = "clear" =>
           GetStats(index, chunks) = [total_chunks |-> 0, index_size |-> 0]
    /\ (dropped >= 0 /\ addedCount = 0) =>
           /\ GetStats(index, chunks) = [total_chunks |-> 0, index_size |-> 0]
           /\ lastOp.op = "search" => lastRet.value = <<>>
    /\ dropped >= 0 =>
           /\ GetStats(index, chunks).total_chunks = addedCount
           /\ GetStats(index, chunks).index_size = addedCount
           /\ lastOp.op = "search" =>
                  \A k \in 1..Len(lastRet.value) :
                      ResultChunk(lastRet.value[k]) \in Range(addedList)

\* a search right after a clear that removed chunks came back empty
C10_Witness ==
    /\ dropped > 0
    /\ addedCount = 0
    /\ lastOp.op = "search"
    /\ lastRet.value = <<>>

\* C11: search never returns more results than chunks are stored; on a
\* non-empty store it returns at least min(top_k, total_chunks) results; on an
\* empty store it returns the empty sequence.
C11_SearchCount ==
    lastOp.op = "search" =>
        LET total_chunks == GetStats(index, chunks).total_chunks IN
        /\ Len(lastRet.value) <= total_chunks
        /\ total_chunks > 0 => Len(lastRet.value) >= Min(lastOp.top_k, total_chunks)
        /\ total_chunks = 0 => lastRet.value = <<>>

\* a search for more results than the two stored chunks returned both
C11_Witness ==
    /\ lastOp.op = "search"
    /\ Len(chunks) = 2
    /\ lastOp.top_k = 3
    /\ Len(lastRet.value) = 2

\* a lower score is a larger denominator of the score 1 / (1 + dist)
ScoreAtLeast(a, b) == a.score[2] <= b.score[2]

\* C12: the results of search are in descending order of score, results of
\* equal score are in ascending order of chunk_index, and the i-th result
\* carries rank i.
C12_OrderedByScoreThenIndex ==
    lastOp.op = "search" =>
        LET res == lastRet.value IN
        /\ \A i \in 1..Len(res) : res[i].rank = i
        /\ \A i, j \in 1..Len(res) :
               i < j =>
                   /\ ScoreAtLeast(res[i], res[j])
                   /\ res[i].score = res[j].score =>
                          res[i].chunk_index <= res[j].chunk_index

(***************************************************************************)
(* Properties of the chunker                                               *)
(***************************************************************************)

\* the chunks appended so far by the running chunk_text call
ChunksSoFar == IF cpc = "words" THEN wst.chunks ELSE cst.chunks

\* the stepwise call returns what ChunkText gives
StepwiseIsChunkText ==
    cpc = "done" =>
        cst.chunks = ChunkText(cin.text, cin.filename, cin.chunk_size, cin.chunk_overlap)

\* the words of the text given to estimate_tokens
WordCount == Len(SplitWords(cin.text))

\* C13: estimate_tokens(text) is 13 * w / 10 rounded to the nearest integer
\* for a text of w words, and 0 for the empty string.
C13_EstimateIsRounded ==
    estimated # -1 =>
        /\ 10 * estimated - 13 * WordCount <= 5
        /\ 13 * WordCount - 10 * estimated <= 5
        /\ cin.text = <<>> => estimated = 0

\* C13, amended: estimate_tokens(text) is 13 * w / 10 rounded down (truncated)
\* for a text of w words, and 0 for the empty string.
C13_EstimateIsTruncated ==
    estimated # -1 =>
        /\ 10 * estimated <= 13 * WordCount
        /\ 13 * WordCount < 10 * estimated + 10
        /\ cin.text = <<>> => estimated = 0

\* a text of two words was estimated at 2 tokens, where 2.6 rounds to 3
C13_Witness ==
    /\ WordCount = 2
    /\ estimated = 2

\* the sum of the token estimates of the pieces of a buffer
RECURSIVE SumTokens(_)
SumTokens(pieces) ==
    IF pieces = <<>> THEN 0 ELSE EstimateTokens(Head(pieces)) + SumTokens(Tail(pieces))

\* every sentence of the text fits the chunk size
AllFit ==
    \A k \in 1..Len(sentenceList) : EstimateTokens(sentenceList[k]) <= cin.chunk_size

\* C14: when every sentence fits chunk_size and chunk_overlap < chunk_size,
\* every chunk after the first begins with a non-empty suffix of the sentences
\* of the chunk before it.
C14_NonEmptyOverlap ==
    (AllFit /\ cin.chunk_overlap < cin.chunk_size) =>
        \A k \in 2..Len(flushes) :
            LET prev == flushes[k - 1].buffer
                cur == flushes[k].buffer
            IN \E n \in 1..Min(Len(prev), Len(cur)) : SubSeq(cur, 1, n) = LastN(prev, n)

\* C14, amended: when every sentence fits chunk_size and chunk_overlap <
\* chunk_size, every chunk after the first begins with the longest suffix of
\* the sentences of the chunk before it whose token estimates sum to at most
\* chunk_overlap, followed by at least one further sentence; that suffix is
\* non-empty exactly when the last sentence of the chunk before is estimated
\* at chunk_overlap tokens or fewer.
C14_OverlapIsLongestFittingSuffix ==
    (AllFit /\ cin.chunk_overlap < cin.chunk_size) =>
        \A k \in 2..Len(flushes) :
            LET prev == flushes[k - 1].buffer
                cur == flushes[k].buffer
            IN \E n \in 0..Len(prev) :
                   /\ SumTokens(LastN(prev, n)) <= cin.chunk_overlap
                   /\ n < Len(prev) => SumTokens(LastN(prev, n + 1)) > cin.chunk_overlap
                   /\ Len(cur) > n
                   /\ SubSeq(cur, 1, n) = LastN(prev, n)
                   /\ n >= 1 <=> EstimateTokens(prev[Len(prev)]) <= cin.chunk_overlap

\* with an overlap of at least one token, the second chunk begins with no
\* sentence of the first: the first chunk's last sentence exceeds the overlap
C14_Witness ==
    /\ AllFit
    /\ 1 <= cin.chunk_overlap
    /\ cin.chunk_overlap < cin.chunk_size
    /\ Len(flushes) >= 2
    /\ EstimateTokens(flushes[1].buffer[Len(flushes[1].buffer)]) > cin.chunk_overlap
    /\ flushes[2].buffer[1] \notin Range(flushes[1].buffer)

\* C19: when every sentence fits chunk_size, the token estimates of the
\* sentences in the working buffer, and so of every chunk appended, sum to at
\* most chunk_size.
C19_BufferWithinTarget ==
    AllFit =>
        /\ SumTokens(cst.current_chunk) <= cin.chunk_size
        /\ \A k \in 1..Len(flushes) : SumTokens(flushes[k].buffer) <= cin.chunk_size

\* C19, amended: when every sentence fits chunk_size, the token estimates of
\* the sentences in the working buffer, and so of every chunk appended, sum to
\* at most chunk_size + chunk_overlap; the buffer exceeds chunk_size only when
\* it is the overlap kept from the chunk before it and one further sentence.
C19_BufferWithinTargetPlusOverlap ==
    AllFit =>
        /\ cst.current_tokens = SumTokens(cst.current_chunk)
        /\ SumTokens(cst.current_chunk) <= cin.chunk_size + cin.chunk_overlap
        /\ \A k \in 1..Len(flushes) :
               SumTokens(flushes[k].buffer) <= cin.chunk_size + cin.chunk_overlap
        /\ (cpc = "sentences" /\ SumTokens(cst.current_chunk) > cin.chunk_size) =>
               /\ flushes # <<>>
               /\ flushes[Len(flushes)].kept # <<>>
               /\ cst.current_chunk =
                      Append(flushes[Len(flushes)].kept,
                             cst.current_chunk[Len(cst.current_chunk)])

\* the buffer was seeded with overlap, took the next sentence, and holds more
\* than chunk_size tokens
C19_Witness ==
    /\ AllFit
    /\ cin.chunk_overlap < cin.chunk_size
    /\ cpc = "sentences"
    /\ flushes # <<>>
    /\ SumTokens(cst.current_chunk) > cin.chunk_size

\* C20: the k-th chunk a chunk_text call appends carries chunk_index k - 1,
\* whichever place in the code appended it, so the chunks returned carry
\* 0, 1, ..., n - 1 in output order.
C20_ChunkIndexSequential ==
    /\ Len(flushes) = Len(ChunksSoFar)
    /\ \A k \in 1..Len(ChunksSoFar) :
           /\ ChunksSoFar[k].chunk_index = k - 1
           /\ ChunksSoFar[k].text = Join(flushes[k].buffer)

\* a call returned chunks appended at each of the four places
C20_Witness ==
    /\ cpc = "done"
    /\ {flushes[k].at : k \in 1..Len(flushes)} = {"sentence", "oversized", "word", "final"}

(***************************************************************************)
(* Order of the model calls                                                *)
(***************************************************************************)

\* C17: within one generate call at most one model call is in flight, a call
\* starts only after every earlier call of this generate came back with a
\* failure, and the models are called in the order of the configured list.
C17_StrictlySequential ==
    /\ Len(calls) \in {Len(results), Len(results) + 1}
    /\ rpc = "calling" <=> Len(calls) = Len(results) + 1
    /\ \A k \in 1..Len(results) : results[k].model = calls[k]
    /\ \A k \in 1..Len(calls) :
           \A j \in 1..(k - 1) :
               /\ calls[j] < calls[k]
               /\ results[j].tag = "return"
               /\ ~Truthy(results[j].value)

\* the third model's call is in flight after the first two calls failed
C17_Witness ==
    /\ rpc = "calling"
    /\ calls = <<1, 2, 3>>
    /\ Len(results) = 2

(***************************************************************************)
(* Failures of the upload                                                  *)
(***************************************************************************)

\* C16: on every extraction or chunking failure the upload gives the
\* structured result {success: false, error, filename}: no exception leaves
\* ingest_document, and the upload never answers with an error raised around
\* the ingestion.
C16_StructuredUploadFailure ==
    /\ lastOp.op = "ingest_document" => "raised" \notin DOMAIN lastRet.value
    /\ lastOp.op = "upload_document" =>
           /\ lastRet.value.status_code # 500
           /\ (lastRet.value.status_code = 200 /\ ~lastRet.value.body.success) =>
                  /\ {"error", "filename"} \subseteq DOMAIN lastRet.value.body
                  /\ lastRet.value.body.filename = lastOp.filename

(***************************************************************************)
(* Failures of answer_question                                             *)
(***************************************************************************)

\* answer_question went on to generate and no model that takes the prompt
\* answers with text
EveryModelFails == qchunks # <<>> /\ FirstUp = 0

\* C15: answer_question returns success = false with an empty citations list
\* when the store has no chunks, when retrieval returns no results, and when
\* every model fails in the router.
C15_FailureHasNoCitations ==
    (qpc = "done" /\ (qstats.total_chunks = 0 \/ qchunks = <<>> \/ EveryModelFails)) =>
        /\ "success" \in DOMAIN qret.value
        /\ qret.value.success = FALSE
        /\ qret.value.citations = <<>>

(***************************************************************************)
(* The store under two threads                                             *)
(***************************************************************************)

\* the search thread is between two of its steps
SearchUnderWay == spc \in {"checked", "clamped", "searched"}

\* C18: the store takes no lock: while a search is under way the steps of
\* add_chunks and clear stay enabled, and while those are under way the steps
\* of search stay enabled; the index and the chunk list differ in size exactly
\* between the two writes of add_chunks and between the two writes of clear,
\* which is where an interleaved search finds them.
C18_UnlockedRaceWindow ==
    /\ SearchUnderWay => ENABLED MutatorNext
    /\ mpc # "idle" => ENABLED SearcherNext
    /\ NTotal(index) # Len(chunks) <=>
           \/ mpc = "add_indexed"
           \/ mpc = "clear_reset" /\ chunks # <<>>

\* a search ran between the two writes of an add_chunks: it read an index
\* larger than the chunk list and returned fewer results than it asked for
C18_Witness ==
    /\ spc = "done"
    /\ mpc = "add_indexed"
    /\ "value" \in DOMAIN sret
    /\ sloc.index_size = NTotal(index)
    /\ sloc.total_chunks = Len(chunks)
    /\ sloc.index_size # sloc.total_chunks
    /\ Len(sret.value) < sloc.k

(***************************************************************************)
(* C21: add_chunks only appends                                            *)
(***************************************************************************)

\* C21: add_chunks is append-only.  The chunk list is, position by position,
\* the concatenation of the lists given to add_chunks since the last clear, in
\* the order they were given (so an add leaves every earlier chunk at its
\* position and puts its own chunks right after them), the vector at each
\* index position is the vector of the chunk at that position, and index_size
\* equals total_chunks after every completed add_chunks and clear.
C21_AppendOnly ==
    /\ chunks = addedList
    /\ NTotal(index) = Len(chunks)
    /\ \A i \in 1..Len(chunks) : index.vectors[i] = Embed(chunks[i].text)
    /\ GetStats(index, chunks).index_size = GetStats(index, chunks).total_chunks

\* an add of one chunk onto two different chunks stored by earlier adds
C21_Witness ==
    /\ lastOp.op = "add_chunks"
    /\ lastOp.n = 1
    /\ Len(chunks) = 3
    /\ chunks[1] # chunks[2]
    /\ chunks[3] # chunks[1]
    /\ chunks[3] # chunks[2]
    /\ Embed(chunks[3].text) # Embed(chunks[1].text)

(***************************************************************************)
(* C22: a question asked of an empty store                                 *)
(***************************************************************************)

\* C22: when answer_question has been called on a store of zero chunks, it
\* has returned the EmptyStore failure result, no search was made and no model
\* was called; a call on a non-empty store never returns that result, and a
\* call whose search gave no results returns the NoRelevantResults result,
\* which is a different one.
C22_EmptyStoreNoSearchNoCall ==
    /\ (qpc = "done" /\ qstats.total_chunks = 0) =>
           /\ qret.value = FailureResult(EmptyStoreError)
           /\ ~qsearched
           /\ qchunks = <<>>
           /\ calls = <<>>
           /\ results = <<>>
           /\ rpc = "idle"
    /\ (qpc = "done" /\ qstats.total_chunks > 0) =>
           /\ qsearched
           /\ qret.value # FailureResult(EmptyStoreError)
           /\ qchunks = <<>> => qret.value = FailureResult(NoRelevantError)
    /\ FailureResult(EmptyStoreError) # FailureResult(NoRelevantError)

\* a question has been asked of the empty store
C22_Witness ==
    /\ qpc = "done"
    /\ qarg.top_k >= 1
    /\ chunks = <<>>
    /\ index = NoIndex
    /\ qstats.total_chunks = 0
    /\ qret.value = FailureResult(EmptyStoreError)

(***************************************************************************)
(* C23: what ingest_document does to the store                             *)
(***************************************************************************)

\* the step is an ingest_document call that returned a result dict
IngestReturned ==
    /\ lastOp'.op = "ingest_document"
    /\ "success" \in DOMAIN lastRet'.value

\* C23: an ingest_document call that returns success = false leaves the index
\* and the chunk list as they were, and a call that returns success = true
\* reports as total_chunks_in_store the chunk count before the call plus
\* chunks_created, which is the chunk count after the call.
C23_IngestFrame ==
    [][IngestReturned =>
          IF lastRet'.value.success
          THEN /\ lastRet'.value.total_chunks_in_store
                     = Len(chunks) + lastRet'.value.chunks_created
               /\ lastRet'.value.total_chunks_in_store = Len(chunks')
               /\ lastRet'.value.chunks_created > 0
          ELSE /\ chunks' = chunks
               /\ index' = index]_vars

\* a document of two chunks has been ingested into a store that held a chunk
C23_Witness ==
    /\ lastOp.op = "ingest_document"
    /\ "success" \in DOMAIN lastRet.value
    /\ lastRet.value.success
    /\ lastRet.value.chunks_created = 2
    /\ lastRet.value.total_chunks_in_store = 3
    /\ Len(chunks) = 3

(***************************************************************************)
(* C24: chunk_text loses no text                                           *)
(***************************************************************************)

\* the words of the whitespace-normalized input; each is named by its place
\* in the input, so no two are equal
NormalizedWords == SplitWords(Normalize(cin.text))

\* the words of the chunk c are the run of the normalized words that starts
\* at position a
RunAt(c, a) ==
    /\ c.text # <<>>
    /\ a + Len(c.text) - 1 <= Len(NormalizedWords)
    /\ c.text = SubSeq(NormalizedWords, a, a + Len(c.text) - 1)

IsRun(c) == \E a \in 1..Len(NormalizedWords) : RunAt(c, a)
RunStart(c) == CHOOSE a \in 1..Len(NormalizedWords) : RunAt(c, a)
RunEnd(c) == RunStart(c) + Len(c.text) - 1

\* C24: chunk_text loses no text.  Once it has returned: every chunk's words
\* are a contiguous run of the normalized words; the first chunk starts at
\* the first word, every next chunk starts no earlier than the one before it
\* and no later than the word after that one's last, and the last chunk ends
\* at the last word, so every word is in at least one chunk; and the list is
\* empty exactly when the input is empty or whitespace only.
C24_NoTextLost ==
    cpc = "done" =>
        LET cs == cst.chunks IN
        /\ (cs = <<>>) <=> IsBlank(cin.text)
        /\ \A i \in 1..Len(cs) : IsRun(cs[i])
        /\ cs # <<>> => RunStart(cs[1]) = 1 /\ RunEnd(cs[Len(cs)]) = Len(NormalizedWords)
        /\ \A i \in 1..(Len(cs) - 1) :
               /\ RunStart(cs[i]) <= RunStart(cs[i + 1])
               /\ RunStart(cs[i + 1]) <= RunEnd(cs[i]) + 1
        /\ \A p \in 1..Len(NormalizedWords) :
               \E i \in 1..Len(cs) : \E q \in 1..Len(cs[i].text) :
                   cs[i].text[q] = NormalizedWords[p]

\* chunk_text has returned three chunks or more from a text with runs of
\* whitespace, after a flush inside an oversized sentence and a flush between
\* sentences that both kept an overlap
C24_Witness ==
    /\ cpc = "done"
    /\ Len(cst.chunks) >= 3
    /\ Len(cin.text) > Len(NormalizedWords)
    /\ \E f \in 1..Len(flushes) : flushes[f].at = "word" /\ flushes[f].kept # <<>>
    /\ \E f \in 1..Len(flushes) : flushes[f].at = "sentence" /\ flushes[f].kept # <<>>

====
